---- MODULE Spec2Model ----
(***************************************************************************)
(* Model of deepseek.py: the postal-office data pipeline                   *)
(*   load_and_clean_data -> generate_summary_stats -> create_visualizations *)
(*   -> to_excel, driven by main().                                        *)
(*                                                                         *)
(* Strings are sequences of one-character strings so that strip() and      *)
(* lower() are computed character by character.  A cell is a record        *)
(* [t, s, n]: t = "str" (value s), t = "num" (value n) or t = "nan".       *)
(* A table is [ok, columns, rows]; ok = FALSE stands for "no table"        *)
(* (an unreadable file, or Python's None).                                 *)
(***************************************************************************)
EXTENDS Integers, Sequences, FiniteSets, TLC

\* ------------------------------------------------------------------ bounds
MaxRows == 3        \* longest table drawn from RowPool
MaxStates == 11     \* most distinct states of a wide table
MaxHeavy == 1       \* most states of a wide table with more than one row
MaxCount == 2       \* most rows of one state in a wide table

\* ------------------------------------------------------------- characters
\* The characters of the model in code-point order (space, A-Z, a-z).
Alphabet ==
  << " ",
     "A","B","C","D","E","F","G","H","I","J","K","L","M",
     "N","O","P","Q","R","S","T","U","V","W","X","Y","Z",
     "a","b","c","d","e","f","g","h","i","j","k","l","m",
     "n","o","p","q","r","s","t","u","v","w","x","y","z" >>

\* ord(c), tabulated once
OrdOf ==
  [c \in { Alphabet[i] : i \in 1..Len(Alphabet) } |->
     CHOOSE i \in 1..Len(Alphabet) : Alphabet[i] = c]

Ord(c) == OrdOf[c]

IsSpace(c) == c = " "

\* str.lower(), one character
LowerChar(c) == IF Ord(c) \in 2..27 THEN Alphabet[Ord(c) + 26] ELSE c

\* str.lower()
Lower(s) == [i \in 1..Len(s) |-> LowerChar(s[i])]

RECURSIVE LStrip(_)
LStrip(s) ==
  IF s # << >> /\ IsSpace(Head(s)) THEN LStrip(Tail(s)) ELSE s

RECURSIVE RStrip(_)
RStrip(s) ==
  IF s # << >> /\ IsSpace(s[Len(s)]) THEN RStrip(SubSeq(s, 1, Len(s) - 1)) ELSE s

\* fault variant: lstrip() in place of strip()
StripLeftOnly(s) == LStrip(s)

\* str.strip()
Strip(s) == LStrip(RStrip(s))

\* Python's str < str: lexicographic by code point
RECURSIVE StrLess(_, _)
StrLess(a, b) ==
  IF b = << >> THEN FALSE
  ELSE IF a = << >> THEN TRUE
  ELSE IF Head(a) # Head(b) THEN Ord(Head(a)) < Ord(Head(b))
  ELSE StrLess(Tail(a), Tail(b))

\* ------------------------------------------------------------------ cells
Str(s) == [t |-> "str", s |-> s, n |-> 0]
Num(n) == [t |-> "num", s |-> << >>, n |-> n]
NaN == [t |-> "nan", s |-> << >>, n |-> 0]

IsNull(c) == c.t = "nan"

\* ordering of group keys: numbers before strings, each in its own order
CellLess(a, b) ==
  IF a.t = "num" /\ b.t = "num" THEN a.n < b.n
  ELSE IF a.t = "num" THEN b.t = "str"
  ELSE IF b.t = "num" THEN FALSE
  ELSE StrLess(a.s, b.s)

\* ----------------------------------------------------------------- tables
Table(cols, rows) == [ok |-> TRUE, columns |-> cols, rows |-> rows]
None == [ok |-> FALSE, columns |-> << >>, rows |-> << >>]

\* the five names of line 30, as character sequences
statename == << "s","t","a","t","e","n","a","m","e" >>
district == << "d","i","s","t","r","i","c","t" >>
officetype == << "o","f","f","i","c","e","t","y","p","e" >>
regionname == << "r","e","g","i","o","n","n","a","m","e" >>
delivery == << "d","e","l","i","v","e","r","y" >>

\* fault variant: the list without its last name
required_columns_without_delivery == << statename, district, officetype, regionname >>

required_columns == << statename, district, officetype, regionname, delivery >>

\* fault variant: dropna(how='all'), which drops only the all-null rows
DropNaHowAll(df) ==
  Table(df.columns, SelectSeq(df.rows, LAMBDA r : \E j \in 1..Len(r) : ~IsNull(r[j])))

\* df.dropna(): keep the rows with no null cell
DropNa(df) ==
  Table(df.columns, SelectSeq(df.rows, LAMBDA r : \A j \in 1..Len(r) : ~IsNull(r[j])))

\* first-seen distinct elements of a sequence
RECURSIVE Unique(_)
Unique(s) ==
  IF s = << >> THEN << >>
  ELSE LET u == Unique(SubSeq(s, 1, Len(s) - 1))
           x == s[Len(s)]
       IN  IF \E i \in 1..Len(u) : u[i] = x THEN u ELSE Append(u, x)

\* df.drop_duplicates(): keep the first of each group of equal rows
DropDuplicates(df) == Table(df.columns, Unique(df.rows))

\* df.columns = df.columns.str.strip().str.lower()
NormalizeColumns(df) ==
  Table([j \in 1..Len(df.columns) |-> Lower(Strip(df.columns[j]))], df.rows)

\* lambda x: x.strip() if isinstance(x, str) else x
StripCell(c) == IF c.t = "str" THEN Str(Strip(c.s)) ELSE c

\* df.applymap(...)
ApplyMap(df) ==
  Table(df.columns,
        [i \in 1..Len(df.rows) |-> [j \in 1..Len(df.rows[i]) |-> StripCell(df.rows[i][j])]])

\* col in df.columns
HasColumn(df, col) == \E j \in 1..Len(df.columns) : df.columns[j] = col

\* the loop of lines 31-33: TRUE when no ValueError is raised
ColumnsVerified(df) ==
  \A k \in 1..Len(required_columns) : HasColumn(df, required_columns[k])

\* df[col]: the cells of one column, in row order
ColIndex(df, col) == CHOOSE j \in 1..Len(df.columns) : df.columns[j] = col

Column(df, col) ==
  LET j == ColIndex(df, col) IN [i \in 1..Len(df.rows) |-> df.rows[i][j]]

\* ------------------------------------------------------------- aggregates
CountOf(col, x) == Cardinality({i \in 1..Len(col) : col[i] = x})

\* stable insertion of e into a sequence sorted by descending count
RECURSIVE InsertDesc(_, _)
InsertDesc(s, e) ==
  IF s = << >> THEN << e >>
  ELSE IF Head(s).count >= e.count THEN << Head(s) >> \o InsertDesc(Tail(s), e)
  ELSE << e >> \o s

RECURSIVE SortDesc(_)
SortDesc(s) ==
  IF s = << >> THEN << >>
  ELSE InsertDesc(SortDesc(SubSeq(s, 1, Len(s) - 1)), s[Len(s)])

\* fault variant: value_counts(sort=False), entries in first-seen order
value_counts_unsorted(col) ==
  LET keys == Unique(col)
  IN  [i \in 1..Len(keys) |-> [key |-> keys[i], count |-> CountOf(col, keys[i])]]

\* Series.value_counts(): one entry per distinct value, descending count,
\* equal counts in first-seen order
value_counts(col) ==
  LET keys == Unique(col)
  IN  SortDesc([i \in 1..Len(keys) |-> [key |-> keys[i], count |-> CountOf(col, keys[i])]])

\* Series.head(n)
HeadN(s, n) == SubSeq(s, 1, IF Len(s) < n THEN Len(s) ELSE n)

\* .head(10) of lines 86 and 107
TopN == 10

RECURSIVE InsertAsc(_, _)
InsertAsc(s, e) ==
  IF s = << >> THEN << e >>
  ELSE IF CellLess(e, Head(s)) THEN << e >> \o s
  ELSE << Head(s) >> \o InsertAsc(Tail(s), e)

RECURSIVE SortAsc(_)
SortAsc(s) ==
  IF s = << >> THEN << >>
  ELSE InsertAsc(SortAsc(SubSeq(s, 1, Len(s) - 1)), s[Len(s)])

\* fault variant: groupby(sort=False), keys in first-seen order
GroupKeysUnsorted(col) == Unique(col)

\* the keys of one groupby level: groupby sorts its keys (sort=True)
GroupKeys(col) == SortAsc(Unique(col))

\* df.groupby([c1, c2]).size(): one entry per pair that occurs, in key order
GroupBySize(df, c1, c2) ==
  LET a == Column(df, c1)
      b == Column(df, c2)
      ka == GroupKeys(a)
      kb == GroupKeys(b)
      n == Len(df.rows)
      cnt(x, y) == Cardinality({i \in 1..n : a[i] = x /\ b[i] = y})
      all == [k \in 1..(Len(ka) * Len(kb)) |->
                LET x == ka[((k - 1) \div Len(kb)) + 1]
                    y == kb[((k - 1) % Len(kb)) + 1]
                IN  [k1 |-> x, k2 |-> y, count |-> cnt(x, y)]]
  IN  SelectSeq(all, LAMBDA e : e.count > 0)

\* .unstack(): rows = first-level keys as they stand, columns = second-level
\* keys sorted, NaN where a pair has no entry
Unstack(gs) ==
  LET idx == Unique([i \in 1..Len(gs) |-> gs[i].k1])
      cols == SortAsc(Unique([i \in 1..Len(gs) |-> gs[i].k2]))
      at(x, y) ==
        IF \E i \in 1..Len(gs) : gs[i].k1 = x /\ gs[i].k2 = y
        THEN Num((CHOOSE e \in {gs[i] : i \in 1..Len(gs)} : e.k1 = x /\ e.k2 = y).count)
        ELSE NaN
  IN  [index |-> idx, columns |-> cols,
       data |-> [i \in 1..Len(idx) |-> [j \in 1..Len(cols) |-> at(idx[i], cols[j])]]]

\* .fillna(0)
FillNa0(fr) ==
  [fr EXCEPT !.data =
     [i \in 1..Len(fr.data) |->
        [j \in 1..Len(fr.data[i]) |->
           IF IsNull(fr.data[i][j]) THEN Num(0) ELSE fr.data[i][j]]]]

\* Series.nunique()
NUnique(col) == Len(Unique(col))

\* ------------------------------------------------------ drawings, figures
CountLabel == Str(<< "c","o","u","n","t" >>)

Blank == [kind |-> "blank", index |-> << >>, columns |-> << >>, data |-> << >>, annot |-> << >>]

\* what Series.plot(kind=...) draws: one bar per entry, in entry order
SeriesBars(kind, vc) ==
  [kind |-> kind,
   index |-> [i \in 1..Len(vc) |-> vc[i].key],
   columns |-> << CountLabel >>,
   data |-> [i \in 1..Len(vc) |-> << Num(vc[i].count) >>],
   annot |-> << >>]

\* what DataFrame.plot(kind='bar', stacked=True) draws
FrameBars(fr) ==
  [kind |-> "stacked", index |-> fr.index, columns |-> fr.columns,
   data |-> fr.data, annot |-> << >>]

\* lines 94-99: one text label int(height) per bar
Annotate(art) ==
  [art EXCEPT !.annot = [i \in 1..Len(art.data) |-> art.data[i][1].n]]

\* sns.heatmap(series.to_frame().T, annot=True): one row of annotated cells
HeatmapRow(vc) ==
  [kind |-> "heatmap",
   index |-> << CountLabel >>,
   columns |-> [i \in 1..Len(vc) |-> vc[i].key],
   data |-> << [i \in 1..Len(vc) |-> Num(vc[i].count)] >>,
   annot |-> [i \in 1..Len(vc) |-> vc[i].count]]

\* the open figures, oldest first; the last one is the current figure
NextNum(fs) ==
  IF fs = << >> THEN 1
  ELSE 1 + (CHOOSE m \in {fs[i].num : i \in 1..Len(fs)} :
              \A i \in 1..Len(fs) : fs[i].num <= m)

\* plt.figure(): open a new figure and make it current
plt_figure(fs) == Append(fs, [num |-> NextNum(fs), art |-> Blank])

\* Series.plot / sns.heatmap with no ax: draw on the current axes (plt.gca())
DrawOnCurrent(fs, art) ==
  IF fs = << >> THEN << [num |-> 1, art |-> art] >>
  ELSE [fs EXCEPT ![Len(fs)].art = art]

\* DataFrame.plot with no ax: opens a figure of its own and draws there
DrawOnOwnFigure(fs, art) == DrawOnCurrent(plt_figure(fs), art)

\* plt.savefig(name): the current figure as an image file
plt_savefig(fs, name) ==
  [name |-> name, art |-> IF fs = << >> THEN Blank ELSE fs[Len(fs)].art]

\* plt.close(): close the current figure only
plt_close(fs) == IF fs = << >> THEN fs ELSE SubSeq(fs, 1, Len(fs) - 1)

\* fault variant: the third and fourth blocks with each other's file name
ChartFilesSwapped ==
  << "region_wise_postoffices", "postoffice_types", "top10_states_postoffices",
     "delivery_vs_non_delivery", "top10_districts_heatmap" >>

\* the savefig names, in source order (.png)
ChartFiles ==
  << "region_wise_postoffices", "postoffice_types", "delivery_vs_non_delivery",
     "top10_states_postoffices", "top10_districts_heatmap" >>

\* DataFrame.to_excel(name, index=...): the sheet that is written
ExcelSheet(df, index) ==
  IF index
  THEN Table(<< << >> >> \o df.columns,
             [i \in 1..Len(df.rows) |-> << Num(i - 1) >> \o df.rows[i]])
  ELSE df

\* ----------------------------------------------------------------- inputs
\* header rows of the input sheet
HdrMixed ==
  << << "S","t","a","t","e","N","a","m","e"," " >>,
     << "D","i","s","t","r","i","c","t" >>,
     << "O","f","f","i","c","e","T","y","p","e" >>,
     << "R","e","g","i","o","n","N","a","m","e" >>,
     << "D","e","l","i","v","e","r","y" >>,
     << "P","i","n","c","o","d","e" >> >>

HdrLower ==
  << statename, district, officetype, regionname, delivery,
     << "p","i","n","c","o","d","e" >> >>

HdrNoDelivery ==
  << << " ","S","T","A","T","E","N","A","M","E" >>,
     district, officetype, regionname,
     << "S","t","a","t","u","s" >>,
     << "p","i","n","c","o","d","e" >> >>

HdrInnerSpace ==
  << << "S","t","a","t","e"," ","N","a","m","e" >>,
     district, officetype, regionname, delivery,
     << "p","i","n","c","o","d","e" >> >>

Headers == { HdrMixed, HdrLower, HdrNoDelivery, HdrInnerSpace }

BO == Str(<< "B","O" >>)
SO == Str(<< "S","O" >>)

\* rows of the input sheet: state, district, office type, region, delivery, pincode
RowPool ==
  { << Str(<< "a" >>), Str(<< "x" >>), BO, Str(<< "r" >>), Str(<< "d" >>), Num(1) >>,
    << Str(<< "a"," " >>), Str(<< "x" >>), BO, Str(<< "r" >>), Str(<< "d" >>), Num(1) >>,
    << Str(<< "b" >>), Str(<< "y" >>), SO, Str(<< "q" >>), Str(<< "n" >>), Num(2) >>,
    << Str(<< " ","b" >>), Str(<< "y" >>), Str(<< "S","O"," " >>), Str(<< "r" >>), Str(<< "d" >>), Num(2) >>,
    << Str(<< "A" >>), Str(<< "x" >>), BO, Str(<< "r" >>), Str(<< "d" >>), Num(1) >>,
    << Str(<< "a" >>), Str(<< "x" >>), BO, Str(<< "r" >>), Str(<< "d" >>), NaN >>,
    << NaN, NaN, NaN, NaN, NaN, NaN >> }

SmallTables ==
  { Table(h, r) : h \in Headers,
                  r \in UNION { [1..n -> RowPool] : n \in 0..MaxRows } }

\* a wide table: state i (named from the end of the alphabet) has cnt[i] rows,
\* which differ in district and alternate in delivery
WideRow(i, j) ==
  << Str(<< Alphabet[Len(Alphabet) + 1 - i] >>), Str(<< Alphabet[27 + j] >>), BO,
     Str(<< "r" >>), Str(IF j % 2 = 1 THEN << "d" >> ELSE << "n" >>), Num(i) >>

RECURSIVE WideRows(_, _)
WideRows(cnt, n) ==
  IF n = 0 THEN << >>
  ELSE WideRows(cnt, n - 1) \o [j \in 1..cnt[n] |-> WideRow(n, j)]

WideCounts(n) ==
  { c \in [1..n -> 1..MaxCount] : Cardinality({i \in 1..n : c[i] > 1}) <= MaxHeavy }

WideTables ==
  UNION { { Table(HdrLower, WideRows(cnt, n)) : cnt \in WideCounts(n) } : n \in 1..MaxStates }

Unreadable == None

Inputs == SmallTables \cup WideTables \cup { Unreadable }

\* ------------------------------------------------------------------ state
VARIABLES
  file,        \* the spreadsheet at file_path (None when it cannot be read)
  pc,          \* the statement about to run
  chart,       \* create_visualizations: the chart being rendered (0 outside)
  df_cleaned,  \* load_and_clean_data's local df_cleaned
  main_df,     \* main's local df_cleaned
  console,     \* the lines printed so far
  figs,        \* matplotlib's open figures, current one last
  files,       \* the image files written, in the order of writing
  xlsx,        \* cleaned_postal_dataset.xlsx (None while not written)
  exc          \* the uncaught exception that ended the run, if any

vars == << file, pc, chart, df_cleaned, main_df, console, figs, files, xlsx, exc >>

Line(tag, num, vals) == [tag |-> tag, num |-> num, vals |-> vals]

NoExc == [raised |-> FALSE, stage |-> "", chart |-> 0]

Init ==
  /\ file \in Inputs
  /\ pc = "main"
  /\ chart = 0
  /\ df_cleaned = None
  /\ main_df = None
  /\ console = << >>
  /\ figs = << >>
  /\ files = << >>
  /\ xlsx = None
  /\ exc = NoExc

\* ----------------------------------------------------- load_and_clean_data
\* main, lines 119-120: print, then call the loader
MainStart ==
  /\ pc = "main"
  /\ console' = Append(console, Line("loading", 0, << >>))
  /\ pc' = "read_excel"
  /\ UNCHANGED << file, chart, df_cleaned, main_df, figs, files, xlsx, exc >>

\* lines 14-17: read the sheet and copy it
ReadExcel ==
  /\ pc = "read_excel"
  /\ file.ok
  /\ df_cleaned' = file
  /\ pc' = "dropna"
  /\ UNCHANGED << file, chart, main_df, console, figs, files, xlsx, exc >>

\* lines 14, 37-39: the read raises; the loader prints and returns None
ReadExcelRaise ==
  /\ pc = "read_excel"
  /\ ~file.ok
  /\ console' = Append(console, Line("error_loading", 0, << >>))
  /\ main_df' = None
  /\ df_cleaned' = None
  /\ pc' = "branch"
  /\ UNCHANGED << file, chart, figs, files, xlsx, exc >>

\* line 20
DropNaStep ==
  /\ pc = "dropna"
  /\ df_cleaned' = DropNa(df_cleaned)
  /\ pc' = "drop_duplicates"
  /\ UNCHANGED << file, chart, main_df, console, figs, files, xlsx, exc >>

\* line 23
DropDuplicatesStep ==
  /\ pc = "drop_duplicates"
  /\ df_cleaned' = DropDuplicates(df_cleaned)
  /\ pc' = "columns"
  /\ UNCHANGED << file, chart, main_df, console, figs, files, xlsx, exc >>

\* line 26
ColumnsStep ==
  /\ pc = "columns"
  /\ df_cleaned' = NormalizeColumns(df_cleaned)
  /\ pc' = "applymap"
  /\ UNCHANGED << file, chart, main_df, console, figs, files, xlsx, exc >>

\* line 27
ApplyMapStep ==
  /\ pc = "applymap"
  /\ df_cleaned' = ApplyMap(df_cleaned)
  /\ pc' = "verify"
  /\ UNCHANGED << file, chart, main_df, console, figs, files, xlsx, exc >>

\* lines 30-35: every required column is there; return the table
VerifyReturn ==
  /\ pc = "verify"
  /\ ColumnsVerified(df_cleaned)
  /\ main_df' = df_cleaned
  /\ df_cleaned' = None
  /\ pc' = "branch"
  /\ UNCHANGED << file, chart, console, figs, files, xlsx, exc >>

\* lines 33, 37-39: ValueError, caught; print and return None
VerifyRaise ==
  /\ pc = "verify"
  /\ ~ColumnsVerified(df_cleaned)
  /\ console' = Append(console, Line("error_loading", 0, << >>))
  /\ main_df' = None
  /\ df_cleaned' = None
  /\ pc' = "branch"
  /\ UNCHANGED << file, chart, figs, files, xlsx, exc >>

\* ------------------------------------------------------------------- main
\* line 122, the table branch
MainBranchTable ==
  /\ pc = "branch"
  /\ main_df.ok
  /\ pc' = "summary"
  /\ UNCHANGED << file, chart, df_cleaned, main_df, console, figs, files, xlsx, exc >>

\* lines 135-136: no table; print the failure message and end
MainBranchNone ==
  /\ pc = "branch"
  /\ ~main_df.ok
  /\ console' = Append(console, Line("failed", 0, << >>))
  /\ pc' = "done"
  /\ UNCHANGED << file, chart, df_cleaned, main_df, figs, files, xlsx, exc >>

\* fault variant: the summary also drops, in place, the rows that repeat a
\* state (df.drop_duplicates('statename', inplace=True))
generate_summary_stats_mutating ==
  /\ pc = "summary"
  /\ console' = console \o
       << Line("summary_header", 0, << >>),
          Line("total_entries", Len(main_df.rows), << >>),
          Line("unique_states", NUnique(Column(main_df, statename)), << >>),
          Line("unique_districts", NUnique(Column(main_df, district)), << >>),
          Line("unique_office_types", 0, Unique(Column(main_df, officetype))) >>
  /\ main_df' =
       Table(main_df.columns,
             SelectSeq(main_df.rows,
                       LAMBDA r : r = main_df.rows[
                          CHOOSE i \in 1..Len(main_df.rows) :
                             /\ main_df.rows[i][ColIndex(main_df, statename)] = r[ColIndex(main_df, statename)]
                             /\ \A k \in 1..(i - 1) : main_df.rows[k][ColIndex(main_df, statename)] # r[ColIndex(main_df, statename)]]))
  /\ pc' = "print_viz"
  /\ UNCHANGED << file, chart, df_cleaned, figs, files, xlsx, exc >>

\* lines 41-47 (called at line 124): five printed lines, nothing else
generate_summary_stats ==
  /\ pc = "summary"
  /\ console' = console \o
       << Line("summary_header", 0, << >>),
          Line("total_entries", Len(main_df.rows), << >>),
          Line("unique_states", NUnique(Column(main_df, statename)), << >>),
          Line("unique_districts", NUnique(Column(main_df, district)), << >>),
          Line("unique_office_types", 0, Unique(Column(main_df, officetype))) >>
  /\ pc' = "print_viz"
  /\ UNCHANGED << file, chart, df_cleaned, main_df, figs, files, xlsx, exc >>

\* lines 127-128: print, then enter create_visualizations
MainPrintViz ==
  /\ pc = "print_viz"
  /\ console' = Append(console, Line("creating_visualizations", 0, << >>))
  /\ pc' = "viz"
  /\ chart' = 1
  /\ UNCHANGED << file, df_cleaned, main_df, figs, files, xlsx, exc >>

\* ---------------------------------------------------- create_visualizations
\* lines 53-60.  A bar plot of an empty Series raises (see VizRaise), so the
\* block completes only on a table with rows.
Viz1 ==
  /\ pc = "viz" /\ chart = 1
  /\ main_df.rows # << >>
  /\ LET f1 == plt_figure(figs)
         f2 == DrawOnCurrent(f1, SeriesBars("barh", value_counts(Column(main_df, regionname))))
     IN  /\ files' = Append(files, plt_savefig(f2, ChartFiles[1]))
         /\ figs' = plt_close(f2)
  /\ chart' = 2
  /\ UNCHANGED << file, pc, df_cleaned, main_df, console, xlsx, exc >>

\* lines 63-70
Viz2 ==
  /\ pc = "viz" /\ chart = 2
  /\ LET f1 == plt_figure(figs)
         f2 == DrawOnCurrent(f1, SeriesBars("bar", value_counts(Column(main_df, officetype))))
     IN  /\ files' = Append(files, plt_savefig(f2, ChartFiles[2]))
         /\ figs' = plt_close(f2)
  /\ chart' = 3
  /\ UNCHANGED << file, pc, df_cleaned, main_df, console, xlsx, exc >>

\* line 74
delivery_counts(df) == FillNa0(Unstack(GroupBySize(df, statename, delivery)))

\* lines 73-82
Viz3 ==
  /\ pc = "viz" /\ chart = 3
  /\ LET f1 == plt_figure(figs)
         f2 == DrawOnOwnFigure(f1, FrameBars(delivery_counts(main_df)))
     IN  /\ files' = Append(files, plt_savefig(f2, ChartFiles[3]))
         /\ figs' = plt_close(f2)
  /\ chart' = 4
  /\ UNCHANGED << file, pc, df_cleaned, main_df, console, xlsx, exc >>

\* line 86
state_counts(df) == HeadN(value_counts(Column(df, statename)), TopN)

\* lines 85-103
Viz4 ==
  /\ pc = "viz" /\ chart = 4
  /\ LET f1 == plt_figure(figs)
         f2 == DrawOnCurrent(f1, Annotate(SeriesBars("bar", state_counts(main_df))))
     IN  /\ files' = Append(files, plt_savefig(f2, ChartFiles[4]))
         /\ figs' = plt_close(f2)
  /\ chart' = 5
  /\ UNCHANGED << file, pc, df_cleaned, main_df, console, xlsx, exc >>

\* line 107
top_districts(df) == HeadN(value_counts(Column(df, district)), TopN)

\* lines 106-112, then back in main
Viz5 ==
  /\ pc = "viz" /\ chart = 5
  /\ LET f1 == plt_figure(figs)
         f2 == DrawOnCurrent(f1, HeatmapRow(top_districts(main_df)))
     IN  /\ files' = Append(files, plt_savefig(f2, ChartFiles[5]))
         /\ figs' = plt_close(f2)
  /\ chart' = 0
  /\ pc' = "to_excel"
  /\ UNCHANGED << file, df_cleaned, main_df, console, xlsx, exc >>

\* fault variant: the exception is caught inside create_visualizations and
\* the next block runs
VizRaiseSwallowed ==
  /\ pc = "viz"
  /\ exc' = [raised |-> TRUE, stage |-> "viz", chart |-> chart]
  /\ chart' = IF chart = 5 THEN 0 ELSE chart + 1
  /\ pc' = IF chart = 5 THEN "to_excel" ELSE "viz"
  /\ UNCHANGED << file, df_cleaned, main_df, console, figs, files, xlsx >>

\* a statement of the current chart's block raises before its savefig has
\* written the file; nothing catches it (lines 128, 139) and the run ends
VizRaise ==
  /\ pc = "viz"
  /\ exc' = [raised |-> TRUE, stage |-> "viz", chart |-> chart]
  /\ pc' = "crashed"
  /\ UNCHANGED << file, chart, df_cleaned, main_df, console, figs, files, xlsx >>

\* ----------------------------------------------------------------- export
\* lines 131-134: write the sheet, print the two closing messages
ToExcel ==
  /\ pc = "to_excel"
  /\ xlsx' = ExcelSheet(main_df, FALSE)
  /\ console' = console \o << Line("saved", 0, << >>), Line("success", 0, << >>) >>
  /\ pc' = "done"
  /\ UNCHANGED << file, chart, df_cleaned, main_df, figs, files, exc >>

\* line 131 raises; nothing catches it
ToExcelRaise ==
  /\ pc = "to_excel"
  /\ exc' = [raised |-> TRUE, stage |-> "to_excel", chart |-> 0]
  /\ pc' = "crashed"
  /\ UNCHANGED << file, chart, df_cleaned, main_df, console, figs, files, xlsx >>

Next ==
  \/ MainStart
  \/ ReadExcel
  \/ ReadExcelRaise
  \/ DropNaStep
  \/ DropDuplicatesStep
  \/ ColumnsStep
  \/ ApplyMapStep
  \/ VerifyReturn
  \/ VerifyRaise
  \/ MainBranchTable
  \/ MainBranchNone
  \/ generate_summary_stats
  \/ MainPrintViz
  \/ Viz1
  \/ Viz2
  \/ Viz3
  \/ Viz4
  \/ Viz5
  \/ VizRaise
  \/ ToExcel
  \/ ToExcelRaise

Spec == Init /\ [][Next]_vars

\* ------------------------------------------------- vocabulary of the claims
HasNull(r) == \E j \in 1..Len(r) : IsNull(r[j])

\* the column names of a sheet once stripped and lowercased
NormalizedNames(t) == { Lower(Strip(t.columns[j])) : j \in 1..Len(t.columns) }

MissingRequired(t) ==
  \E c \in { statename, district, officetype, regionname, delivery } :
     c \notin NormalizedNames(t)

TrimmedRow(r) ==
  [j \in 1..Len(r) |-> IF r[j].t = "str" THEN Str(Strip(r[j].s)) ELSE r[j]]

Printed(tag) == \E i \in 1..Len(console) : console[i].tag = tag

\* main holds a table, returned by the loader
LoaderReturnedTable == main_df.ok

\* the loader has just returned a table to main (line 120 is done)
LoaderReturns == pc = "branch" /\ main_df.ok

RowsWith(df, col, x) ==
  LET j == ColIndex(df, col) IN { i \in 1..Len(df.rows) : df.rows[i][j] = x }

ValuesOf(df, col) ==
  LET j == ColIndex(df, col) IN { df.rows[i][j] : i \in 1..Len(df.rows) }

Min(a, b) == IF a < b THEN a ELSE b

\* ---------------------------------------------------------------------- C1
\* C1: when a required column is missing from the stripped, lowercased
\* header, the loader hands main no table, and the run writes no image and
\* no spreadsheet and ends with the failure message.
C1_MissingColumnYieldsAbsence ==
  (pc \in { "branch", "summary", "print_viz", "viz", "to_excel", "done", "crashed" }
     /\ file.ok /\ MissingRequired(file)) =>
     /\ ~main_df.ok
     /\ files = << >>
     /\ ~xlsx.ok
     /\ pc \in { "branch", "done" }
     /\ (pc = "done" => Printed("error_loading") /\ Printed("failed"))

C1_Witness ==
  /\ file.ok /\ MissingRequired(file)
  /\ Len(file.rows) >= 2 /\ ~HasNull(file.rows[1])
  /\ pc = "done"

\* ---------------------------------------------------------------------- C2
\* C2: the table the loader returns has no two rows equal in every column.
C2_NoDuplicateRows ==
  LoaderReturnedTable =>
     \A i, j \in 1..Len(main_df.rows) :
        i # j => main_df.rows[i] # main_df.rows[j]

\* ---------------------------------------------------------------------- C3
\* C3: after dropna the row count is the input's minus its rows with a null;
\* in the returned table no row with a null survives, every input row
\* without a null is there in trimmed form, and nothing else is there.
C3_NullRowsDropped ==
  /\ pc = "drop_duplicates" =>
        Len(df_cleaned.rows) =
          Len(file.rows) - Cardinality({ i \in 1..Len(file.rows) : HasNull(file.rows[i]) })
  /\ LoaderReturns =>
        LET nulls == { file.rows[i] : i \in { k \in 1..Len(file.rows) : HasNull(file.rows[k]) } }
            kept == { TrimmedRow(file.rows[i]) :
                        i \in { k \in 1..Len(file.rows) : ~HasNull(file.rows[k]) } }
            out == { main_df.rows[k] : k \in 1..Len(main_df.rows) }
        IN  /\ \A r \in out : ~HasNull(r)
            /\ out \cap nulls = { }
            /\ kept \subseteq out
            /\ out \subseteq kept

C3_Witness ==
  /\ LoaderReturns
  /\ \E i \in 1..Len(file.rows) : HasNull(file.rows[i]) /\ ~(\A j \in 1..Len(file.rows[i]) : IsNull(file.rows[i][j]))
  /\ \E i \in 1..Len(file.rows) : ~HasNull(file.rows[i]) /\ TrimmedRow(file.rows[i]) # file.rows[i]
  /\ Len(main_df.rows) >= 1

\* ---------------------------------------------------------------------- C4
\* C4: in the returned table no string cell starts or ends with whitespace,
\* and every row is an input row whose non-string cells are unchanged.
C4_CellsTrimmed ==
  LoaderReturns =>
     \A k \in 1..Len(main_df.rows) :
        /\ \A j \in 1..Len(main_df.rows[k]) :
              LET c == main_df.rows[k][j]
              IN  (c.t = "str" /\ c.s # << >>) =>
                     (~IsSpace(c.s[1]) /\ ~IsSpace(c.s[Len(c.s)]))
        /\ \E i \in 1..Len(file.rows) :
              /\ Len(file.rows[i]) = Len(main_df.rows[k])
              /\ \A j \in 1..Len(main_df.rows[k]) :
                    /\ file.rows[i][j].t = main_df.rows[k][j].t
                    /\ file.rows[i][j].t # "str" => file.rows[i][j] = main_df.rows[k][j]

C4_Witness ==
  /\ LoaderReturns
  /\ \E k \in 1..Len(main_df.rows) : \E j \in 1..Len(main_df.rows[k]) :
        main_df.rows[k][j].t = "num"
  /\ \E i \in 1..Len(file.rows) : \E j \in 1..Len(file.rows[i]) :
        /\ ~HasNull(file.rows[i])
        /\ file.rows[i][j].t = "str"
        /\ file.rows[i][j].s # << >>
        /\ IsSpace(file.rows[i][j].s[Len(file.rows[i][j].s)])
  /\ \E i \in 1..Len(file.rows) : \E j \in 1..Len(file.rows[i]) :
        /\ ~HasNull(file.rows[i])
        /\ file.rows[i][j].t = "str"
        /\ file.rows[i][j].s # << >>
        /\ IsSpace(file.rows[i][j].s[1])

\* ---------------------------------------------------------------------- C5
\* C5: the summary is printed only for a table the loader returned; the
\* images are written after it, in the fixed order of the five names; the
\* spreadsheet is written only after all five; with no table nothing later
\* than the loader runs.
C5_StageOrder ==
  /\ (pc \in { "summary", "print_viz", "viz", "to_excel" } \/ Printed("summary_header"))
        => LoaderReturnedTable
  /\ Len(files) <= 5
  /\ \A i \in 1..Len(files) :
        files[i].name =
          << "region_wise_postoffices", "postoffice_types", "delivery_vs_non_delivery",
             "top10_states_postoffices", "top10_districts_heatmap" >>[i]
  /\ files # << >> => (Printed("total_entries") /\ Printed("creating_visualizations"))
  /\ pc = "viz" => (chart \in 1..5 /\ Len(files) = chart - 1)
  /\ pc = "to_excel" => Len(files) = 5
  /\ xlsx.ok => (Len(files) = 5 /\ pc = "done")
  /\ ~LoaderReturnedTable =>
        /\ files = << >> /\ ~xlsx.ok /\ figs = << >>
        /\ ~Printed("summary_header") /\ ~Printed("creating_visualizations")
        /\ ~Printed("saved") /\ ~Printed("success")

C5_Witness ==
  /\ pc = "done"
  /\ xlsx.ok
  /\ Len(files) = 5
  /\ files[3].name = "delivery_vs_non_delivery"
  /\ files[4].name = "top10_states_postoffices"

\* ---------------------------------------------------------------------- C6
\* C6: the top-10-states image shows min(10, number of distinct states)
\* distinct states, in descending order of their row counts, each labelled
\* with its exact row count, and no state left out has more rows than a
\* state shown.
C6_TopTenStates ==
  Len(files) >= 4 =>
     LET art == files[4].art
         all == ValuesOf(main_df, statename)
         cnt(x) == Cardinality(RowsWith(main_df, statename, x))
         shown == { art.index[i] : i \in 1..Len(art.index) }
     IN  /\ Len(art.index) = Min(10, Cardinality(all))
         /\ Cardinality(shown) = Len(art.index)
         /\ shown \subseteq all
         /\ \A i, j \in 1..Len(art.index) :
               i < j => cnt(art.index[i]) >= cnt(art.index[j])
         /\ Len(art.annot) = Len(art.index)
         /\ \A i \in 1..Len(art.index) :
               /\ art.annot[i] = cnt(art.index[i])
               /\ art.data[i] = << Num(cnt(art.index[i])) >>
         /\ \A x \in all \ shown : \A y \in shown : cnt(x) <= cnt(y)

C6_Witness ==
  /\ Len(files) >= 4
  /\ Cardinality(ValuesOf(main_df, statename)) > 10
  /\ Len(files[4].art.index) = 10
  /\ files[4].art.annot[1] > files[4].art.annot[10]
  /\ files[4].art.index[1] # main_df.rows[1][ColIndex(main_df, statename)]

\* ---------------------------------------------------------------------- C7
\* C7 as stated: the delivery image has one bar per distinct state, the
\* states in the order of their first rows in the cleaned table, and each
\* segment is the number of rows of its (state, delivery) pair.
C7_FirstSeenOrder ==
  Len(files) >= 3 =>
     LET art == files[3].art
     IN  /\ art.index = Unique(Column(main_df, statename))
         /\ \A i \in 1..Len(art.index) : \A j \in 1..Len(art.columns) :
               art.data[i][j] =
                 Num(Cardinality(RowsWith(main_df, statename, art.index[i])
                                 \cap RowsWith(main_df, delivery, art.columns[j])))

\* C7 amended: the delivery image has one bar per distinct state, the states
\* in ascending order of their names, one segment per distinct delivery
\* value, and each segment is the number of rows of its (state, delivery)
\* pair, zero when there is none.
C7_SortedOrder ==
  Len(files) >= 3 =>
     LET art == files[3].art
     IN  /\ { art.index[i] : i \in 1..Len(art.index) } = ValuesOf(main_df, statename)
         /\ Len(art.index) = Cardinality(ValuesOf(main_df, statename))
         /\ \A i, j \in 1..Len(art.index) :
               i < j => CellLess(art.index[i], art.index[j])
         /\ { art.columns[j] : j \in 1..Len(art.columns) } = ValuesOf(main_df, delivery)
         /\ Len(art.columns) = Cardinality(ValuesOf(main_df, delivery))
         /\ \A i \in 1..Len(art.index) : \A j \in 1..Len(art.columns) :
               art.data[i][j] =
                 Num(Cardinality(RowsWith(main_df, statename, art.index[i])
                                 \cap RowsWith(main_df, delivery, art.columns[j])))

C7_Witness ==
  /\ Len(files) >= 3
  /\ files[3].art.index # Unique(Column(main_df, statename))
  /\ \E i \in 1..Len(files[3].art.index) : \E j \in 1..Len(files[3].art.columns) :
        files[3].art.data[i][j] = Num(0)
  /\ \E i \in 1..Len(files[3].art.index) : \E j \in 1..Len(files[3].art.columns) :
        files[3].art.data[i][j] = Num(1)
  /\ Len(files[3].art.index) >= 2 /\ Len(files[3].art.columns) >= 2

\* ---------------------------------------------------------------------- C8
\* C8: after each chart block, and on return from create_visualizations, no
\* figure is open.
C8_NoOpenFigures ==
  pc \in { "viz", "to_excel", "done" } => Len(figs) = 0

\* ---------------------------------------------------------------------- C9
\* C9: when chart k raises, the run has ended there: the images of charts
\* 1..k-1 are on disk and no other, the spreadsheet is not written, and
\* neither closing message is printed.
C9_PartialOutputs ==
  (exc.raised /\ exc.stage = "viz") =>
     /\ pc = "crashed"
     /\ exc.chart \in 1..5
     /\ Len(files) = exc.chart - 1
     /\ \A i \in 1..Len(files) :
           files[i].name =
             << "region_wise_postoffices", "postoffice_types", "delivery_vs_non_delivery",
                "top10_states_postoffices", "top10_districts_heatmap" >>[i]
     /\ ~xlsx.ok
     /\ ~Printed("saved") /\ ~Printed("success")
     /\ LoaderReturnedTable

C9_Witness ==
  /\ exc.raised /\ exc.stage = "viz" /\ exc.chart = 4
  /\ Len(files) = 3
  /\ pc = "crashed"

\* --------------------------------------------------------------------- C10
\* C10: once the loader has returned the table no step changes it, and the
\* sheet the exporter writes is that table, with as many rows as the
\* total-entries line of the summary says.
C10_TableNeverMutated ==
  /\ [][main_df.ok => main_df' = main_df]_vars
  /\ [](xlsx.ok =>
          /\ xlsx = main_df
          /\ \E i \in 1..Len(console) :
                console[i].tag = "total_entries" /\ console[i].num = Len(xlsx.rows)
          /\ \A i \in 1..Len(console) :
                console[i].tag = "total_entries" => console[i].num = Len(xlsx.rows))

C10_Witness ==
  /\ pc = "done"
  /\ xlsx.ok
  /\ Len(xlsx.rows) >= 2
  /\ Len(file.rows) > Len(xlsx.rows)

====
